---- MODULE Spec2Model ----
(***************************************************************************)
(* A model of slid.ts, the interactive terminal line selector.             *)
(*                                                                         *)
(* Text is a sequence of one-character strings.  Line indices are the      *)
(* program's zero-based indices: line i of the program is choices[i + 1].  *)
(***************************************************************************)
EXTENDS Integers, Sequences, FiniteSets

VARIABLES
    choices,          \* the input lines (slid.ts:125)
    ttyRows,          \* the cached terminal height (slid.ts:73, 86)
    multiline,        \* args.multiline || args.m
    preserveOrder,    \* args["preserve-order"] || args.p
    selected,         \* Set<number> (slid.ts:126)
    selectionOrder,   \* Map<number, number> (slid.ts:127)
    rowOffset,        \* slid.ts:128
    cursorIndex,      \* slid.ts:129
    selectionNumber,  \* slid.ts:130
    pc,               \* where the main loop is: "Running", or how it ended
    stdout,           \* the writes made to Deno.stdout, in order
    ttyClosed,        \* how many times tty.close() has run
    ttyLog,           \* the terminal operations of the last handler that wrote
    termCols,         \* the terminal's width, which stty reports (slid.ts:82)
    inputBuffer,      \* new Uint8Array(3) (slid.ts:272)
    pending           \* the bytes typed at the terminal and not yet read

\* The state the handlers work on.
session == <<choices, ttyRows, termCols, multiline, preserveOrder, selected,
             selectionOrder, rowOffset, cursorIndex, selectionNumber, pc,
             stdout, ttyClosed, ttyLog>>

\* The input side of the terminal.
terminal == <<inputBuffer, pending>>

vars == <<session, terminal>>

---------------------------------------------------------------------------
(* Bounds of the model. *)

\* Longest input blob read from stdin, in characters.
MaxBlob == 7

\* Tallest terminal.
MaxTtyRows == 5

\* Widest terminal.
MaxTtyCols == 5

\* Longest input blob of the sessions whose keystrokes are followed byte by
\* byte, and the most bytes that wait at the terminal unread.
MaxTypedBlob == 3

MaxPending == 3

\* The characters of the input: a letter, a blank, and the line separator.
Chars == {"a", " ", "\n"}

Blobs == UNION {[1..n -> Chars] : n \in 0..MaxBlob}

\* stty reports a terminal tall enough for the two rows of chrome and at
\* least one row of the list.
TtyRowsRange == 3..MaxTtyRows

\* The two widest terminals: no wider than tall, and wider than tall.
TtyColsRange == (MaxTtyCols - 1)..MaxTtyCols

TypedBlobs == {blob \in Blobs : Len(blob) <= MaxTypedBlob}

---------------------------------------------------------------------------
(* Text helpers: String.prototype.trim, split("\n"), join("\n"). *)

IsSpace(c) == c \in {" ", "\n"}

RECURSIVE Trim(_)
Trim(s) ==
    IF s = <<>> THEN <<>>
    ELSE IF IsSpace(Head(s)) THEN Trim(Tail(s))
    ELSE IF IsSpace(s[Len(s)]) THEN Trim(SubSeq(s, 1, Len(s) - 1))
    ELSE s

RECURSIVE TrimRight(_)
TrimRight(s) ==
    IF s = <<>> THEN <<>>
    ELSE IF IsSpace(s[Len(s)]) THEN TrimRight(SubSeq(s, 1, Len(s) - 1))
    ELSE s

RECURSIVE Split(_)
Split(s) ==
    IF \A k \in 1..Len(s) : s[k] # "\n" THEN <<s>>
    ELSE LET k == CHOOSE j \in 1..Len(s) :
                      s[j] = "\n" /\ \A h \in 1..(j - 1) : s[h] # "\n"
         IN  <<SubSeq(s, 1, k - 1)>> \o Split(SubSeq(s, k + 1, Len(s)))

RECURSIVE JoinLines(_)
JoinLines(ls) ==
    IF ls = <<>> THEN <<>>
    ELSE IF Len(ls) = 1 THEN ls[1]
    ELSE ls[1] \o <<"\n">> \o JoinLines(Tail(ls))

\* const choices = decoder.decode(stdInContent).trim().split("\n")
ParseChoices(blob) == Split(Trim(blob))

---------------------------------------------------------------------------
(* The line store. *)

TotalLines == Len(choices)

Line(i) == choices[i + 1]

IsLineUnselectable(line) == line = <<>>

\* getRows()
GetRows == ttyRows - 2

\* getCols(): return ttyRows
GetCols == ttyRows

---------------------------------------------------------------------------
(* The selection model: select(). *)

MapSet(m, k, v) == [x \in DOMAIN m \cup {k} |-> IF x = k THEN v ELSE m[x]]

MapDelete(m, k) == [x \in DOMAIN m \ {k} |-> m[x]]

\* Renumber gone wrong: the gap a deselected line leaves is not closed.
RenumberNothing(order, removed) == order

\* Renumber gone wrong: every remaining line moves up, not only the later ones.
RenumberEvery(order, removed) == [k \in DOMAIN order |-> order[k] - 1]

\* for (let [key, val] of selectionOrder) { if (val < removed) continue;
\*                                          selectionOrder.set(key, val - 1) }
Renumber(order, removed) ==
    [k \in DOMAIN order |->
        IF order[k] < removed THEN order[k] ELSE order[k] - 1]

\* Deselect gone wrong: selectionNumber-- is missing.
DeselectKeepingCounter ==
    [selected        |-> selected \ {cursorIndex},
     selectionOrder  |-> IF preserveOrder
                         THEN Renumber(MapDelete(selectionOrder, cursorIndex),
                                       selectionOrder[cursorIndex])
                         ELSE selectionOrder,
     selectionNumber |-> selectionNumber]

\* The branch of select() taken when the cursor's line is selected.
Deselect ==
    [selected        |-> selected \ {cursorIndex},
     selectionOrder  |-> IF preserveOrder
                         THEN Renumber(MapDelete(selectionOrder, cursorIndex),
                                       selectionOrder[cursorIndex])
                         ELSE selectionOrder,
     selectionNumber |-> IF preserveOrder THEN selectionNumber - 1
                                          ELSE selectionNumber]

\* NewSequence gone wrong: the running counter in both modes.
NewSequenceCounter == selectionNumber

\* The sequence number a newly selected line is given.
NewSequence == IF preserveOrder THEN selectionNumber ELSE cursorIndex

\* The branch of select() taken when the cursor's line is not selected.
AddSelection ==
    [selected        |-> selected \cup {cursorIndex},
     selectionOrder  |-> MapSet(selectionOrder, cursorIndex, NewSequence),
     selectionNumber |-> IF preserveOrder THEN selectionNumber + 1
                                          ELSE selectionNumber]

\* select(): the selection state it leaves.
SelectResult ==
    IF IsLineUnselectable(Line(cursorIndex))
    THEN [selected |-> selected, selectionOrder |-> selectionOrder,
          selectionNumber |-> selectionNumber]
    ELSE IF cursorIndex \in selected THEN Deselect ELSE AddSelection

---------------------------------------------------------------------------
(* Navigation: moveCursor(move, doRecursiveMove). *)

\* ScrollOffset gone wrong: scrolling down stops one row short of the target.
ScrollOffsetShort(move, nextIndex) ==
    IF move < 0 /\ nextIndex < rowOffset THEN nextIndex
    ELSE IF move > 0 /\ nextIndex >= rowOffset + GetRows
         THEN nextIndex - GetRows
    ELSE rowOffset

\* ScrollOffset gone wrong: scrolling down puts the target on the top row.
ScrollOffsetTop(move, nextIndex) ==
    IF move < 0 /\ nextIndex < rowOffset THEN nextIndex
    ELSE IF move > 0 /\ nextIndex >= rowOffset + GetRows THEN nextIndex
    ELSE rowOffset

\* The scroll adjustment made before the cursor is committed.
ScrollOffset(move, nextIndex) ==
    IF move < 0 /\ nextIndex < rowOffset THEN nextIndex
    ELSE IF move > 0 /\ nextIndex >= rowOffset + GetRows
         THEN nextIndex - GetRows + 1
    ELSE rowOffset

\* if (nextIndex < 0 || nextIndex >= choices.length) return
OutOfList(nextIndex) == nextIndex < 0 \/ nextIndex >= TotalLines

RECURSIVE MoveCursor(_, _)
MoveCursor(move, doRecursiveMove) ==
    LET nextIndex == cursorIndex + move
        stay      == [cursorIndex |-> cursorIndex, rowOffset |-> rowOffset]
    IN  IF OutOfList(nextIndex) THEN stay
        ELSE IF IsLineUnselectable(Line(nextIndex))
             THEN IF doRecursiveMove
                  THEN MoveCursor(move + (IF move < 0 THEN -1 ELSE 1),
                                  doRecursiveMove)
                  ELSE stay
        ELSE IF nextIndex = cursorIndex THEN stay
        ELSE [cursorIndex |-> nextIndex,
              rowOffset   |-> ScrollOffset(move, nextIndex)]

---------------------------------------------------------------------------
(* Rendering, as far as the terminal operations go. *)

Min(a, b) == IF a <= b THEN a ELSE b

Max(a, b) == IF a >= b THEN a ELSE b

TtyOp(name, count) == [op |-> name, n |-> count]

\* choices.slice(offset, offset + getRows()).length
ScreenRows(offset) ==
    Max(0, Min(offset + GetRows, TotalLines) - Min(offset, TotalLines))

\* writeScreen(): one write of the visible slice.
WriteScreen(offset) == TtyOp("writeScreen", ScreenRows(offset))

\* The escape codes of Style, one token each.
Style ==
    [reset |-> "ESC[0m", faint |-> "ESC[2m", black |-> "ESC[30m",
     magenta |-> "ESC[35m", bgBrightYellow |-> "ESC[103m",
     bgBrightMagenta |-> "ESC[105m"]

StyleCodes == {Style[name] : name \in DOMAIN Style}

\* styles.length
StylesLength == 0

\* The style functions of styles, by name.
ApplyStyle(fn, text) ==
    CASE fn = "unselected"        -> text
      [] fn = "highlightSelected" ->
             <<Style.bgBrightMagenta, Style.black>> \o text \o <<Style.reset>>
      [] fn = "highlighted"       ->
             <<Style.bgBrightYellow, Style.black>> \o text \o <<Style.reset>>
      [] fn = "selected"          -> <<Style.magenta>> \o text \o <<Style.reset>>
      [] fn = "unselectable"      -> <<Style.faint>> \o text \o <<Style.reset>>
      [] fn = "clear"             -> text \o <<Style.reset>>

\* A number in a template string: its decimal digits.
DigitChars == <<"0", "1", "2", "3", "4", "5", "6", "7", "8", "9">>

RECURSIVE Digits(_)
Digits(n) ==
    IF n < 10 THEN <<DigitChars[n + 1]>>
    ELSE Digits(n \div 10) \o <<DigitChars[(n % 10) + 1]>>

\* selectionOrder.get(i) in a template string.
OrderText(i) ==
    IF i \in DOMAIN selectionOrder THEN Digits(selectionOrder[i])
    ELSE <<"u", "n", "d", "e", "f", "i", "n", "e", "d">>

Spaces(n) == [k \in 1..n |-> " "]

\* formatLine(line, index), with args.hideNumbers as given.
FormatLine(line, index, hideNumbers) ==
    LET i == index + rowOffset
        isHighlighted == i = cursorIndex
        isSelected == i \in selected
        formatted == TrimRight(line)
        fn == IF isHighlighted /\ isSelected THEN "highlightSelected"
              ELSE IF isHighlighted THEN "highlighted"
              ELSE IF isSelected THEN "selected"
              ELSE IF IsLineUnselectable(formatted) THEN "unselectable"
              ELSE "unselected"
        ordered == IF preserveOrder /\ isSelected
                   THEN <<"(">> \o OrderText(i) \o <<")", " ">> \o line
                   ELSE line
        numbered == IF ~hideNumbers
                    THEN Digits(i) \o <<":", " ">> \o ordered
                    ELSE ordered
        padding == GetCols - (Len(numbered) + StylesLength)
    IN  IF padding >= 0
        THEN ApplyStyle(fn, numbered) \o Spaces(padding) \o <<"\n">>
        ELSE ApplyStyle("clear",
                 ApplyStyle(fn, SubSeq(numbered, 1, Len(numbered) + padding)))
             \o <<"\n">>

\* The lines writeScreen() writes: formatLine over the visible slice.
ScreenLines(hideNumbers) ==
    [k \in 1..ScreenRows(rowOffset) |->
        FormatLine(Line(rowOffset + k - 1), k - 1, hideNumbers)]

\* clearScreen(): blank rows for the rendered block.
ClearScreen == TtyOp("clearScreen", Min(TotalLines, GetRows))

ResetCursor == TtyOp("resetCursor", 0)

SaveCursor == TtyOp("saveCursor", 0)

\* The first render and the cursor mark, before the loop starts.
InitialRender ==
    <<WriteScreen(0), TtyOp("scrollCursorUp", TotalLines), SaveCursor,
      TtyOp("scrollCursorDown", TotalLines)>>

---------------------------------------------------------------------------
(* finish(). *)

\* The comparator gone wrong: by line index, whatever the sequence numbers.
SortsByIndex(order, a, b) == a <= b

\* The comparator gone wrong: b - a, the larger sequence number first.
SortsAfter(order, a, b) == order[a] >= order[b]

\* a - b of the comparator: the smaller sequence number goes first.
SortsBefore(order, a, b) == order[a] <= order[b]

\* Array.from(selected).sort(by selectionOrder)
RECURSIVE SortBySelectionOrder(_, _)
SortBySelectionOrder(S, order) ==
    IF S = {} THEN <<>>
    ELSE LET first == CHOOSE x \in S : \A y \in S : SortsBefore(order, x, y)
         IN  <<first>> \o SortBySelectionOrder(S \ {first}, order)

\* selectedIndices.map((i) => choices[i]).join("\n")
OutputText(sel, order) ==
    LET indices == SortBySelectionOrder(sel, order)
    IN  JoinLines([k \in 1..Len(indices) |-> Line(indices[k])])

Finish(sel, order) ==
    /\ ttyLog' = <<ResetCursor, ClearScreen, ResetCursor>>
    /\ stdout' = Append(stdout, OutputText(sel, order))
    /\ ttyClosed' = ttyClosed + 1
    /\ pc' = "Finished"

---------------------------------------------------------------------------
(* The session: start-up and one action per case of the main loop. *)

\* getTtySize(): "stty size" answers "<rows> <cols>"; size.split("-") leaves
\* the answer in one piece, parseInt reads its leading number into ttyRows,
\* and ttyCols, which nothing reads, is left undefined.
ParsedRows(size) == size[1]

\* Start-up with an input blob and a terminal size from the given sets.
Start(blobs, sizes) ==
    /\ \E blob \in blobs : choices = ParseChoices(blob)
    /\ \E size \in sizes : ttyRows = ParsedRows(size) /\ termCols = size[2]
    /\ multiline \in BOOLEAN
    /\ preserveOrder \in BOOLEAN
    /\ selected = {}
    /\ selectionOrder = [x \in {} |-> 0]
    /\ rowOffset = 0
    /\ cursorIndex = 0
    /\ selectionNumber = 0
    /\ pc = "Running"
    /\ stdout = <<>>
    /\ ttyClosed = 0
    /\ ttyLog = InitialRender
    /\ inputBuffer = <<0, 0, 0>>
    /\ pending = <<>>

Init == Start(Blobs, TtyRowsRange \X TtyColsRange)

\* What start-up fixes for the whole session: no handler writes these.
fixed == <<choices, ttyRows, termCols, multiline, preserveOrder>>

\* Quit gone wrong: the selection is flushed to stdout on the way out.
QuitFlushing ==
    /\ pc = "Running"
    /\ pc' = "Quit"
    /\ stdout' = Append(stdout, OutputText(selected, selectionOrder))
    /\ ttyClosed' = ttyClosed + 1
    /\ UNCHANGED <<fixed, selected, selectionOrder, rowOffset, cursorIndex,
                   selectionNumber, ttyLog>>

\* case "q", case "quit"
Quit ==
    /\ pc = "Running"
    /\ pc' = "Quit"
    /\ ttyClosed' = ttyClosed + 1
    /\ UNCHANGED <<fixed, selected, selectionOrder, rowOffset, cursorIndex,
                   selectionNumber, stdout, ttyLog>>

\* handleMoveCursor gone wrong: the redraw is not preceded by resetCursor().
HandleMoveCursorNoReset(move) ==
    LET moved == MoveCursor(move, TRUE)
    IN  /\ pc = "Running"
        /\ cursorIndex' = moved.cursorIndex
        /\ rowOffset' = moved.rowOffset
        /\ ttyLog' = <<WriteScreen(moved.rowOffset)>>
        /\ UNCHANGED <<fixed, selected, selectionOrder, selectionNumber, pc,
                       stdout, ttyClosed>>

\* handleMoveCursor(move)
HandleMoveCursor(move) ==
    LET moved == MoveCursor(move, TRUE)
    IN  /\ pc = "Running"
        /\ cursorIndex' = moved.cursorIndex
        /\ rowOffset' = moved.rowOffset
        /\ ttyLog' = <<ResetCursor, WriteScreen(moved.rowOffset)>>
        /\ UNCHANGED <<fixed, selected, selectionOrder, selectionNumber, pc,
                       stdout, ttyClosed>>

\* case "up"
Up == HandleMoveCursor(-1)

\* case "down"
Down == HandleMoveCursor(1)

\* case "enter", case "s": handleSelect()
Select ==
    LET after == SelectResult
    IN  /\ pc = "Running"
        /\ selected' = after.selected
        /\ selectionOrder' = after.selectionOrder
        /\ selectionNumber' = after.selectionNumber
        /\ IF multiline
           THEN /\ ttyLog' = <<ResetCursor, WriteScreen(rowOffset)>>
                /\ UNCHANGED <<pc, stdout, ttyClosed>>
           ELSE Finish(after.selected, after.selectionOrder)
        /\ UNCHANGED <<fixed, rowOffset, cursorIndex>>

\* Continue gone wrong: no test of selected.size before finish().
ContinueUnguarded ==
    /\ pc = "Running"
    /\ Finish(selected, selectionOrder)
    /\ UNCHANGED <<fixed, selected, selectionOrder, rowOffset, cursorIndex,
                   selectionNumber>>

\* case "c": handleContinue()
Continue ==
    /\ pc = "Running"
    /\ IF selected = {}
       THEN UNCHANGED <<pc, stdout, ttyClosed, ttyLog>>
       ELSE Finish(selected, selectionOrder)
    /\ UNCHANGED <<fixed, selected, selectionOrder, rowOffset, cursorIndex,
                   selectionNumber>>

\* An action no case matches: the loop reads again.
Ignored ==
    /\ pc = "Running"
    /\ UNCHANGED session

\* tty.read() returns null: the loop ends and so does the program.
EndOfStream ==
    /\ pc = "Running"
    /\ pc' = "Eof"
    /\ UNCHANGED <<fixed, selected, selectionOrder, rowOffset, cursorIndex,
                   selectionNumber, stdout, ttyClosed, ttyLog>>

\* One turn of the main loop for each action the decoder can hand it.
Next ==
    \/ Quit /\ UNCHANGED terminal
    \/ Up /\ UNCHANGED terminal
    \/ Down /\ UNCHANGED terminal
    \/ Select /\ UNCHANGED terminal
    \/ Continue /\ UNCHANGED terminal
    \/ Ignored /\ UNCHANGED terminal
    \/ EndOfStream /\ UNCHANGED terminal

Spec == Init /\ [][Next]_vars

---------------------------------------------------------------------------
(* Input handling: the bytes of the terminal, tty.read and getInputAction. *)

UP_BYTES == <<27, 91, 65>>

DOWN_BYTES == <<27, 91, 66>>

\* The keys of the keyboard and the bytes each one sends.
Keys == {"ctrl-c", "enter", "up", "down", "esc", "q", "s", "c"}

KeyBytes(key) ==
    CASE key = "ctrl-c" -> <<3>>
      [] key = "enter"  -> <<13>>
      [] key = "up"     -> UP_BYTES
      [] key = "down"   -> DOWN_BYTES
      [] key = "esc"    -> <<27>>
      [] key = "q"      -> <<113>>
      [] key = "s"      -> <<115>>
      [] key = "c"      -> <<99>>

\* decoder.decode(inputBuffer.slice(0, 1))
DecodeByte(byte) ==
    CASE byte = 113 -> "q"
      [] byte = 115 -> "s"
      [] byte = 99  -> "c"
      [] byte = 91  -> "["
      [] byte = 65  -> "A"
      [] byte = 66  -> "B"
      [] byte = 27  -> "\\u001B"
      [] OTHER      -> "\\u0000"

\* getInputAction(), of a buffer of three bytes.
GetInputAction(buffer) ==
    IF buffer[1] = 3 THEN "quit"
    ELSE IF buffer[1] = 13 THEN "enter"
    ELSE IF buffer[1] = 27 /\ buffer = UP_BYTES THEN "up"
    ELSE IF buffer[1] = 27 /\ buffer = DOWN_BYTES THEN "down"
    ELSE DecodeByte(buffer[1])

\* The bytes one tty.read(inputBuffer) takes: what waits, three at most.
Delivered == SubSeq(pending, 1, Min(3, Len(pending)))

\* The buffer after the read: the bytes delivered overwrite its first bytes
\* and the others stay as the reads before left them.
BufferAfterRead ==
    [k \in 1..3 |-> IF k <= Len(Delivered) THEN Delivered[k]
                                           ELSE inputBuffer[k]]

\* switch (action)
Dispatch(action) ==
    IF action \in {"q", "quit"} THEN Quit
    ELSE IF action = "up" THEN Up
    ELSE IF action = "down" THEN Down
    ELSE IF action \in {"enter", "s"} THEN Select
    ELSE IF action = "c" THEN Continue
    ELSE Ignored

\* A key is pressed: its bytes wait at the terminal for the next read.
Type ==
    /\ pc = "Running"
    /\ \E key \in Keys :
           /\ Len(pending) + Len(KeyBytes(key)) <= MaxPending
           /\ pending' = pending \o KeyBytes(key)
    /\ UNCHANGED <<session, inputBuffer>>

\* One turn of the loop: tty.read(inputBuffer), getInputAction(), the switch.
Read ==
    /\ pc = "Running"
    /\ pending # <<>>
    /\ inputBuffer' = BufferAfterRead
    /\ pending' = SubSeq(pending, Len(Delivered) + 1, Len(pending))
    /\ Dispatch(GetInputAction(BufferAfterRead))

\* tty.read() returns null.
ReadEndOfStream ==
    /\ pending = <<>>
    /\ EndOfStream
    /\ UNCHANGED terminal

TypedSizes == {<<MaxTtyRows, MaxTtyCols>>}

InitTyped == Start(TypedBlobs, TypedSizes)

NextTyped == Type \/ Read \/ ReadEndOfStream

\* The session with its keystrokes followed byte by byte.
SpecTyped == InitTyped /\ [][NextTyped]_vars

---------------------------------------------------------------------------
(* Vocabulary of the properties. *)

Indices == 0..(TotalLines - 1)

\* A line whose trimmed content is empty (empty or whitespace only).
Blank(i) == Trim(Line(i)) = <<>>

\* The selected indices in the order of their sequence numbers 0, 1, 2, ...
PickOrder ==
    [n \in 1..Cardinality(selected) |->
        CHOOSE i \in selected : selectionOrder[i] = n - 1]

\* A sequence of indices without the index i.
RECURSIVE Without(_, _)
Without(seq, i) ==
    IF seq = <<>> THEN <<>>
    ELSE IF Head(seq) = i THEN Without(Tail(seq), i)
    ELSE <<Head(seq)>> \o Without(Tail(seq), i)

\* A set of indices as the ascending sequence.
RECURSIVE Ascending(_)
Ascending(S) ==
    IF S = {} THEN <<>>
    ELSE LET least == CHOOSE x \in S : \A y \in S : x <= y
         IN  <<least>> \o Ascending(S \ {least})

\* The text of the lines at a sequence of indices, newline-joined.
TextOf(indices) == JoinLines([k \in 1..Len(indices) |-> Line(indices[k])])

---------------------------------------------------------------------------
(* C1: in preserve-order mode the sequence numbers of the currently        *)
(* selected lines are exactly 0 .. k-1, k the number of selected lines.    *)
C1_DenseSequenceNumbers ==
    preserveOrder =>
        /\ selected \subseteq DOMAIN selectionOrder
        /\ {selectionOrder[i] : i \in selected}
               = 0..(Cardinality(selected) - 1)

\* Two lines selected out of index order, one sequence number each.
C1_Witness ==
    /\ preserveOrder
    /\ pc = "Running"
    /\ \E i, j \in selected :
           i < j /\ selectionOrder[i] = 1 /\ selectionOrder[j] = 0
    /\ \E h \in Indices : h \notin selected /\ ~IsLineUnselectable(Line(h))

(* C2: in every state, in both modes, the keys of selectionOrder are       *)
(* exactly the selected indices.                                           *)
C2_OrderKeysAreSelected == DOMAIN selectionOrder = selected

MovesToEnd ==
    /\ preserveOrder
    /\ cursorIndex \in selected
    /\ selectionOrder[cursorIndex] # Cardinality(selected) - 1

C4_PositionalOrderIsIndex ==
    ~preserveOrder =>
        \A i \in selected :
            i \in DOMAIN selectionOrder /\ selectionOrder[i] = i

\* Two lines selected, one of them since toggled off and on again or not.
C4_Witness ==
    /\ ~preserveOrder
    /\ pc = "Running"
    /\ Cardinality(selected) >= 2
    /\ DOMAIN selectionOrder # selected

C6_CursorAndOffsetInRange ==
    /\ 0 <= cursorIndex
    /\ cursorIndex < TotalLines
    /\ 0 <= rowOffset
    /\ rowOffset <= Max(0, TotalLines - GetRows)

\* The window is scrolled to the very end of a list longer than the window.
C6_Witness ==
    /\ GetRows >= 2
    /\ rowOffset = TotalLines - GetRows
    /\ rowOffset > 0
    /\ cursorIndex = TotalLines - 1

\* The selectable lines strictly below, strictly above the cursor.
Below == {j \in Indices : j > cursorIndex /\ ~Blank(j)}

Above == {j \in Indices : j < cursorIndex /\ ~Blank(j)}

\* The move lands on target when there is one, and changes nothing otherwise.
MovesTo(targets, target) ==
    IF targets # {} THEN cursorIndex' = target
    ELSE cursorIndex' = cursorIndex /\ rowOffset' = rowOffset

(* C7: a move up or down takes the cursor to the nearest selectable line   *)
(* in that direction when there is one, and leaves cursorIndex and         *)
(* rowOffset unchanged when there is none.                                 *)
C7_MovesToNearestSelectable ==
    [][/\ Down => MovesTo(Below, CHOOSE j \in Below : \A h \in Below : j <= h)
       /\ Up => MovesTo(Above, CHOOSE j \in Above : \A h \in Above : j >= h)]_vars

(* C8: a line whose trimmed content is empty is never selected, and the    *)
(* cursor rests on one only at line 0 of a list with no selectable line.   *)
C8_BlankLinesUnselectable ==
    /\ \A i \in selected : ~Blank(i)
    /\ Blank(cursorIndex) =>
           cursorIndex = 0 /\ \A j \in Indices : Blank(j)

(* C9: in preserve-order mode a newly selected line goes to the end of the *)
(* order, a deselected line leaves it, and finishing writes the text of    *)
(* the selected lines in that order, newline-joined, once.                 *)
C9_PreserveOrderOutput ==
    [][preserveOrder =>
          /\ (cursorIndex \notin selected /\ cursorIndex \in selected') =>
                 PickOrder' = Append(PickOrder, cursorIndex)
          /\ (cursorIndex \in selected /\ cursorIndex \notin selected') =>
                 PickOrder' = Without(PickOrder, cursorIndex)
          /\ selected' = selected => PickOrder' = PickOrder
          /\ (pc = "Running" /\ pc' = "Finished") =>
                 stdout' = <<TextOf(PickOrder')>>]_vars

\* Finished with a later line selected before an earlier one.
C9_Witness ==
    /\ preserveOrder
    /\ pc = "Finished"
    /\ Cardinality(selected) >= 2
    /\ \E i, j \in selected : i < j /\ selectionOrder[i] > selectionOrder[j]
    /\ stdout = <<TextOf(PickOrder)>>
    /\ stdout # <<TextOf(Ascending(selected))>>

(* C10: in positional mode finishing writes the text of the selected lines *)
(* in ascending line index, newline-joined, once.                          *)
C10_PositionalOutput ==
    (pc = "Finished" /\ ~preserveOrder) =>
        stdout = <<TextOf(Ascending(selected))>>

\* Finished with two or more lines selected and one line toggled off again.
C10_Witness ==
    /\ ~preserveOrder
    /\ pc = "Finished"
    /\ Cardinality(selected) >= 2
    /\ DOMAIN selectionOrder # selected
    /\ stdout = <<TextOf(Ascending(selected))>>

---------------------------------------------------------------------------
\* The input blob was empty: one line, and that line is empty.
EmptyInput == choices = <<<<>>>>

(* C11: with an empty input blob no up, down, enter, s or c ends the       *)
(* session or selects anything: the session stays Running with an empty    *)
(* selection and nothing written, in single-selection and multiline mode.  *)
C11_EmptyInputOnlyQuitEnds ==
    [][(EmptyInput /\ (Up \/ Down \/ Select \/ Continue)) =>
          /\ pc' = "Running"
          /\ selected' = {}
          /\ stdout' = stdout]_vars

(* C12: c changes nothing while the selection is empty, and otherwise      *)
(* finishes the session with one write of at least one line.               *)
C12_ContinueNeedsSelection ==
    [][Continue =>
          IF selected = {}
          THEN UNCHANGED vars
          ELSE /\ pc' = "Finished"
               /\ Len(stdout') = 1
               /\ stdout'[1] # <<>>
               /\ Len(Split(stdout'[1])) = Cardinality(selected)]_vars

\* Finished by c from multiline mode: a Select never finishes there.
C12_Witness ==
    /\ multiline
    /\ pc = "Finished"
    /\ selected # {}
    /\ Len(stdout) = 1
    /\ stdout[1] # <<>>

(* C13: when the process has ended, by quit, by finish or by the end of    *)
(* the terminal's input stream, the terminal handle was closed exactly     *)
(* once.                                                                   *)
C13_TtyClosedOnceOnExit == pc # "Running" => ttyClosed = 1

(* C14: a quit leaves stdout unwritten; stdout is written at most once,    *)
(* and only by finishing.                                                  *)
C14_QuitWritesNothing ==
    /\ pc = "Quit" => stdout = <<>>
    /\ Len(stdout) <= 1
    /\ stdout # <<>> => pc = "Finished"

\* Quit with lines selected: there was something to write, and it was not.
C14_Witness ==
    /\ pc = "Quit"
    /\ Cardinality(selected) >= 2
    /\ stdout = <<>>
    /\ ttyClosed = 1

---------------------------------------------------------------------------
\* The three bytes a fresh buffer would hold after a read of these bytes.
Fresh(bytes) == [k \in 1..3 |-> IF k <= Len(bytes) THEN bytes[k] ELSE 0]

(* C15: decoding is stateless between reads. The action of a read is the   *)
(* action of the bytes that read delivered, whatever the reads before left *)
(* in the buffer: up only when it delivered ESC [ A, down only when it     *)
(* delivered ESC [ B.                                                      *)
C15_DecodingIsStateless ==
    [][Read =>
          LET action == GetInputAction(inputBuffer')
          IN  /\ action = GetInputAction(Fresh(Delivered))
              /\ action = "up" => Delivered = UP_BYTES
              /\ action = "down" => Delivered = DOWN_BYTES]_vars

(* C16: no batching. Every read takes the bytes of one keystroke and no    *)
(* more, so that every keystroke waiting at the terminal is decoded by a   *)
(* read of its own.                                                        *)
C16_OneKeystrokePerRead ==
    [][Read => \E key \in Keys : Delivered = KeyBytes(key)]_vars

\* The characters of a formatted line that take a column of the terminal:
\* all but the style codes and the newline at its end.
VisibleWidth(text) ==
    Cardinality({k \in 1..Len(text) : text[k] \notin StyleCodes \cup {"\n"}})

(* C17: every line formatLine produces is as wide as the terminal: its     *)
(* visible width is the number of columns of the terminal, whatever the    *)
(* terminal's size, with the line numbers shown or hidden.                 *)
C17_LinesFillTerminalWidth ==
    \A hideNumbers \in BOOLEAN :
        \A k \in DOMAIN ScreenLines(hideNumbers) :
            VisibleWidth(ScreenLines(hideNumbers)[k]) = termCols

---------------------------------------------------------------------------
\* The places of a terminal log where the operation op stands.
Places(log, op) == {k \in 1..Len(log) : log[k].op = op}

\* Every redraw and every clear of the log directly follows a restore to the
\* mark, and every clear is directly followed by one.
RestoredAroundDraws(log) ==
    /\ \A k \in Places(log, "writeScreen") \cup Places(log, "clearScreen") :
           k > 1 /\ log[k - 1].op = "resetCursor"
    /\ \A k \in Places(log, "clearScreen") :
           k < Len(log) /\ log[k + 1].op = "resetCursor"

\* The log of start-up: one render, then one mark.
MarkedAfterFirstRender(log) ==
    /\ Cardinality(Places(log, "saveCursor")) = 1
    /\ Places(log, "writeScreen") = {1}
    /\ Places(log, "resetCursor") \cup Places(log, "clearScreen") = {}

(* C18: the cursor mark is saved once, after the first writeScreen and     *)
(* before any input is read; every later writeScreen directly follows a    *)
(* restore to the mark, and the clearScreen of finish() has a restore      *)
(* directly before and directly after it.                                  *)
C18_MarkOnceRestoreBeforeRedraw ==
    /\ MarkedAfterFirstRender(ttyLog)
    /\ [][ttyLog' # ttyLog =>
             /\ Places(ttyLog', "saveCursor") = {}
             /\ RestoredAroundDraws(ttyLog')]_vars

\* Finished after a redraw: the last writes are restore, clear, restore.
C18_Witness ==
    /\ pc = "Finished"
    /\ multiline
    /\ rowOffset > 0
    /\ Places(ttyLog, "clearScreen") = {2}
    /\ Places(ttyLog, "resetCursor") = {1, 3}

(* C19: in preserve-order mode selectionNumber is the number of selected   *)
(* lines; in positional mode it stays 0.                                   *)
C19_CounterIsSelectionSize ==
    selectionNumber = IF preserveOrder THEN Cardinality(selected) ELSE 0

\* Two lines selected in preserve-order mode, the cursor on a third line.
C19_Witness ==
    /\ preserveOrder
    /\ pc = "Running"
    /\ selectionNumber = 2
    /\ Cardinality(selected) = 2
    /\ cursorIndex \notin selected
    /\ ~IsLineUnselectable(Line(cursorIndex))

====
